---- MODULE Spec2Model ----
(***************************************************************************)
(* The infraction ledger of the exam-monitoring extension: the service     *)
(* worker's chrome.runtime.onMessage handlers (background.js) over         *)
(* chrome.storage.local.                                                   *)
(*                                                                         *)
(* Every handler is asynchronous: it calls chrome.storage.local.get, its   *)
(* callback later receives a copy of the stored mappings, computes on that *)
(* copy and calls chrome.storage.local.set with BOTH mappings, and the     *)
(* response is sent from the set callback.  Each of these steps is one     *)
(* action, so handlers of different messages interleave exactly at the     *)
(* points where the JavaScript event loop can switch between them.         *)
(*                                                                         *)
(* The ledger is the two stored mappings, infractions and blockedIds; Init *)
(* is the state the onInstalled listener leaves (both mappings empty).     *)
(* Desktop notifications (showNotification) are display only and are not   *)
(* part of the ledger state.  new Date() is a logical clock that advances  *)
(* with every recorded infraction.                                         *)
(*                                                                         *)
(* The session is the content script of one monitored page (content.js):   *)
(* it asks the ledger whether its identity is blocked, activates, and its  *)
(* input guards, timers and camera acquisition report infractions to the   *)
(* ledger through chrome.runtime.sendMessage; the callback of a message    *)
(* runs in the step that sends its response.  Timers fire at any time;     *)
(* Date.now() in the page advances in steps of TickMs.  The 5 s timer that *)
(* hides a warning notice changes the display only and is left out.        *)
(***************************************************************************)
EXTENDS Integers, Sequences, FiniteSets, TLC

\* ------------------------------------------------------------------ bounds
NumSlots == 2          \* message handlers that can be in flight together
MaxRequests == 5       \* messages received in one behaviour
MaxOverlaps == 1       \* messages received while another handler is in flight
MaxWriterRequests == 4 \* messages received in one behaviour of WriterSpec
MaxSessionRequests == 3 \* messages received in one behaviour of SessionSpec
MaxEmitted == 2        \* infractions one session emits
MaxTicks == 2          \* steps of the session's clock
TickMs == 500          \* ms per step of the session's clock
StartTime == 1000      \* Date.now() when the page loads
MaxChecks == 6         \* periodic checks one detector runs in one behaviour
MaxRelayRequests == 3  \* messages the ledger receives in one behaviour of RelaySpec
MaxEyeSteps == 7       \* pointer bursts and checks in one behaviour of EyeSpec

\* --------------------------------------------------------------- constants
INFRACTION_THRESHOLD == 2
LastEventsKept == 5
WarningMinGap == 1000   \* ms between two displayed warning notices
AudioThreshold == 30    \* mean magnitude above which a check is a hit

INFRACTION_TYPES ==
  [ TAB_SWITCH        |-> [severity |-> 3, message |-> "Tab switching detected"],
    WINDOW_BLUR       |-> [severity |-> 2, message |-> "Window lost focus"],
    CAMERA_OFF        |-> [severity |-> 5, message |-> "Camera turned off"],
    NO_FACE           |-> [severity |-> 4, message |-> "Face not detected in camera"],
    MULTIPLE_FACES    |-> [severity |-> 5, message |-> "Multiple faces detected"],
    EYE_MOVEMENT      |-> [severity |-> 3, message |-> "Suspicious eye movements detected"],
    AUDIO_DETECTED    |-> [severity |-> 3, message |-> "Background audio/conversation detected"],
    COPY_PASTE        |-> [severity |-> 4, message |-> "Copy/paste attempt blocked"],
    NAVIGATION        |-> [severity |-> 5, message |-> "Navigation attempt blocked"],
    NEW_TAB           |-> [severity |-> 5, message |-> "New tab/window attempt blocked"],
    EXTERNAL_APP      |-> [severity |-> 5, message |-> "Unauthorized application detected"],
    SCREEN_SHARE      |-> [severity |-> 5, message |-> "Screen sharing software detected"],
    MULTIPLE_MONITORS |-> [severity |-> 5, message |-> "Multiple monitors detected"],
    REMOTE_DESKTOP    |-> [severity |-> 5, message |-> "Remote desktop access detected"] ]

\* ------------------------------------------------------------------ inputs
Slots == 1..NumSlots
Identities == {"s1", "s2"}
NoId == ""
StudentIds == Identities \cup {NoId}
InputTypes == {"TAB_SWITCH", "BOGUS"}
InputDetails == {"Page hidden - possible tab switch"}
InputPages == {"https://exam.example/paper"}

Messages ==
  [type : {"recordInfraction"}, studentId : StudentIds,
   infractionType : InputTypes, details : InputDetails, page : InputPages]
  \cup [type : {"isBlocked"}, studentId : Identities]
  \cup [type : {"getStatus"}]
  \cup [type : {"unblockId"}, studentId : Identities]
  \cup [type : {"clearAllData"}]

\* ----------------------------------------------------------------- helpers
EmptyMap == [k \in {} |-> 0]
EmptyLedger == [infractions |-> EmptyMap, blockedIds |-> EmptyMap]
Nil == [nil |-> TRUE]

Has(m, k) == k \in DOMAIN m
Put(m, k, v) == [x \in (DOMAIN m) \cup {k} |-> IF x = k THEN v ELSE m[x]]
Remove(m, k) == [x \in (DOMAIN m) \ {k} |-> m[x]]

\* faulty variant: the first n entries are kept
SliceLast_First(s, n) ==
  IF Len(s) <= n THEN s ELSE SubSeq(s, 1, n)

\* Array.prototype.slice(-n)
SliceLast(s, n) ==
  IF Len(s) <= n THEN s ELSE SubSeq(s, Len(s) - n + 1, Len(s))

\* INFRACTION_TYPES[infractionType] || { severity: 1, message: 'Unknown infraction' }
InfractionInfo(t) ==
  IF t \in DOMAIN INFRACTION_TYPES
  THEN INFRACTION_TYPES[t]
  ELSE [severity |-> 1, message |-> "Unknown infraction"]

\* faulty variant: the already-blocked check never fires
AlreadyBlocked_Never(blockedIds, studentId) == FALSE

\* if (blockedIds[studentId])
AlreadyBlocked(blockedIds, studentId) == Has(blockedIds, studentId)

\* faulty variant: blocks on reaching the threshold (>= for >)
OverThreshold_AtThreshold(warnings) == warnings >= INFRACTION_THRESHOLD

\* faulty variant: blocks one infraction late
OverThreshold_Late(warnings) == warnings > INFRACTION_THRESHOLD + 1

\* if (infractions[studentId].warnings > INFRACTION_THRESHOLD)
OverThreshold(warnings) == warnings > INFRACTION_THRESHOLD

NewRecord == [count |-> 0, events |-> << >>, warnings |-> 0]

\* the event pushed on the identity's events list
InfractionEvent(m, now) ==
  [type     |-> m.infractionType,
   severity |-> InfractionInfo(m.infractionType).severity,
   message  |-> InfractionInfo(m.infractionType).message,
   details  |-> m.details,
   time     |-> now,
   page     |-> m.page]

\* faulty variant: the event is not pushed on the events list
Recorded_NoEvent(infractions, m, now) ==
  LET old == IF Has(infractions, m.studentId)
             THEN infractions[m.studentId] ELSE NewRecord
  IN [count    |-> old.count + 1,
      events   |-> old.events,
      warnings |-> old.warnings + 1]

\* faulty variant: count is incremented, warnings is not
Recorded_NoWarning(infractions, m, now) ==
  LET old == IF Has(infractions, m.studentId)
             THEN infractions[m.studentId] ELSE NewRecord
  IN [count    |-> old.count + 1,
      events   |-> Append(old.events, InfractionEvent(m, now)),
      warnings |-> old.warnings]

\* the record of the identity after "Record infraction"
Recorded(infractions, m, now) ==
  LET old == IF Has(infractions, m.studentId)
             THEN infractions[m.studentId] ELSE NewRecord
  IN [count    |-> old.count + 1,
      events   |-> Append(old.events, InfractionEvent(m, now)),
      warnings |-> old.warnings + 1]

\* blockedIds[studentId] = { blockedAt, reason, totalInfractions, lastEvents }
BlockRecord(rec, now) ==
  [blockedAt        |-> now,
   reason           |-> "Exceeded infraction threshold",
   totalInfractions |-> rec.count,
   lastEvents       |-> SliceLast(rec.events, LastEventsKept)]

\* The body of the recordInfraction storage callback for an identity that is
\* not blocked in `data`: the mappings handed to chrome.storage.local.set and
\* the response sent from its callback.
RecordInfraction(data, m, now) ==
  LET rec  == Recorded(data.infractions, m, now)
      base == [ok |-> TRUE, infractions |-> rec.count,
               warnings |-> rec.warnings,
               message |-> InfractionInfo(m.infractionType).message]
  IN IF OverThreshold(rec.warnings)
     THEN [infractions |-> Put(data.infractions, m.studentId, rec),
           blockedIds  |-> Put(data.blockedIds, m.studentId, BlockRecord(rec, now)),
           response    |-> [ok |-> TRUE, infractions |-> rec.count,
                            warnings |-> rec.warnings,
                            message |-> InfractionInfo(m.infractionType).message,
                            blocked |-> TRUE,
                            blockReason |-> BlockRecord(rec, now).reason]]
     ELSE [infractions |-> Put(data.infractions, m.studentId, rec),
           blockedIds  |-> data.blockedIds,
           response    |-> base]

\* faulty variant: the BlockRecord is deleted and count reset, warnings kept
UnblockId_KeepWarnings(data, studentId) ==
  [blockedIds  |-> Remove(data.blockedIds, studentId),
   infractions |->
     IF Has(data.infractions, studentId)
     THEN Put(data.infractions, studentId,
              [data.infractions[studentId] EXCEPT !.count = 0])
     ELSE data.infractions]

\* The body of the unblockId storage callback: the mappings handed to set.
UnblockId(data, studentId) ==
  [blockedIds  |-> Remove(data.blockedIds, studentId),
   infractions |->
     IF Has(data.infractions, studentId)
     THEN Put(data.infractions, studentId,
              [data.infractions[studentId] EXCEPT !.count = 0, !.warnings = 0])
     ELSE data.infractions]

\* faulty variant: the BlockRecord is left out of the answer
IsBlockedResponse_NoInfo(data, studentId) ==
  IF Has(data.blockedIds, studentId)
  THEN [blocked |-> TRUE, info |-> Nil]
  ELSE [blocked |-> FALSE, info |-> Nil]

\* sendResponse({ blocked: !!blocked, info: blocked || null })
IsBlockedResponse(data, studentId) ==
  IF Has(data.blockedIds, studentId)
  THEN [blocked |-> TRUE, info |-> data.blockedIds[studentId]]
  ELSE [blocked |-> FALSE, info |-> Nil]

\* sendResponse({ infractions: data.infractions || {}, blockedIds: ... })
GetStatusResponse(data) ==
  [infractions |-> data.infractions, blockedIds |-> data.blockedIds]

\* ------------------------------------------- the session (content script)
\* One monitored page.  The record holds the content script's variables
\* (studentId, monitoringActive, cameraStream, audioContext, lastWarningTime),
\* what it has installed or scheduled (guards, timers), its calls in flight
\* (camPending: getUserMedia, monPending: the first detectMultipleMonitors),
\* what the page shows (blockScreen), where it is (phase), and a history of
\* what it did (stopped, prevShown, lastShown, suppressed, emitted, sent).
NamedIntervals ==
  {"faceDetectionInterval", "audioDetectionInterval", "eyeTrackingInterval",
   "screenShareCheckInterval", "monitorCheckInterval"}

\* the timers whose handles are kept in no variable
UnnamedTimers == {"cameraLiveness", "windowMovement", "cameraRetry"}

\* what each periodic check reports when it observes a violation
DetectorType ==
  [ faceDetectionInterval    |-> "NO_FACE",
    audioDetectionInterval   |-> "AUDIO_DETECTED",
    eyeTrackingInterval      |-> "EYE_MOVEMENT",
    screenShareCheckInterval |-> "SCREEN_SHARE",
    monitorCheckInterval     |-> "MULTIPLE_MONITORS",
    cameraLiveness           |-> "CAMERA_OFF",
    windowMovement           |-> "MULTIPLE_MONITORS" ]

\* the periodic checks that also call showWarningOverlay themselves
OverlayingDetectors == {"screenShareCheckInterval", "monitorCheckInterval"}

NotShown == -1

InitSession ==
  [ studentId        |-> NoId,
    phase            |-> "loading",
    monitoringActive |-> FALSE,
    guards           |-> FALSE,
    timers           |-> {},
    cameraStream     |-> FALSE,
    audioContext     |-> FALSE,
    camPending       |-> FALSE,
    monPending       |-> FALSE,
    lastWarningTime  |-> 0,
    blockScreen      |-> FALSE,
    stopped          |-> FALSE,
    prevShown        |-> NotShown,
    lastShown        |-> NotShown,
    suppressed       |-> FALSE,
    emitted          |-> 0,
    sent             |-> 0 ]

Truthy(resp, f) == f \in DOMAIN resp /\ resp[f] = TRUE

\* faulty variant: a notice may follow another after half a second
RateLimited_HalfSecond(now, lastWarningTime) ==
  now - lastWarningTime < WarningMinGap - TickMs

\* if (now - lastWarningTime < 1000) return;
RateLimited(now, lastWarningTime) == now - lastWarningTime < WarningMinGap

\* showWarningOverlay(msg, severity) called at time now
ShowWarningOverlay(c, now) ==
  IF RateLimited(now, c.lastWarningTime)
  THEN [c EXCEPT !.suppressed = TRUE]
  ELSE [c EXCEPT !.lastWarningTime = now,
                 !.prevShown = c.lastShown,
                 !.lastShown = now]

\* faulty variant: the camera stream and the audio context are kept
StopAllMonitoring_KeepsStream(c) ==
  [c EXCEPT !.monitoringActive = FALSE,
            !.timers = @ \ NamedIntervals,
            !.stopped = TRUE]

\* stopAllMonitoring(): the five intervals kept in variables are cleared, the
\* stream's tracks are stopped and the audio context is closed.
StopAllMonitoring(c) ==
  [c EXCEPT !.monitoringActive = FALSE,
            !.timers = @ \ NamedIntervals,
            !.cameraStream = FALSE,
            !.audioContext = FALSE,
            !.stopped = TRUE]

\* enforceBlock(info): stopAllMonitoring(), then the page is replaced by the
\* block screen.
EnforceBlock(c) == [StopAllMonitoring(c) EXCEPT !.blockScreen = TRUE]

\* location.reload(): the page and everything it scheduled or holds is gone.
Reload(c) ==
  [c EXCEPT !.phase = "unloaded", !.monitoringActive = FALSE,
            !.guards = FALSE, !.timers = {}, !.cameraStream = FALSE,
            !.audioContext = FALSE, !.camPending = FALSE,
            !.monPending = FALSE]

\* the activation branch of initializeMonitoring's isBlocked callback
Activate(c, now) ==
  ShowWarningOverlay(
    [c EXCEPT !.monitoringActive = TRUE,
              !.guards = TRUE,
              !.timers = @ \cup {"screenShareCheckInterval"},
              !.monPending = TRUE,
              !.camPending = TRUE],
    now)

\* initializeMonitoring's isBlocked callback; switchId is what confirm() returns
OnInitResponse(c, resp, switchId, now) ==
  IF Truthy(resp, "blocked")
  THEN IF switchId THEN Reload(c)
       ELSE [EnforceBlock(c) EXCEPT !.phase = "started"]
  ELSE [Activate(c, now) EXCEPT !.phase = "started"]

\* checkBlockedStatus's isBlocked callback; useNewId is what confirm() returns
OnCheckResponse(c, resp, useNewId) ==
  IF Truthy(resp, "blocked")
  THEN IF useNewId THEN Reload([c EXCEPT !.studentId = NoId])
       ELSE EnforceBlock(c)
  ELSE c

\* faulty variant: a warning is requested before the block is enforced
OnRecordResponse_WarnsOnBlock(c, resp, now) ==
  IF Truthy(resp, "blocked") THEN EnforceBlock(ShowWarningOverlay(c, now))
  ELSE IF Truthy(resp, "ok") THEN ShowWarningOverlay(c, now)
  ELSE c

\* recordInfraction's response callback
OnRecordResponse(c, resp, now) ==
  IF Truthy(resp, "blocked") THEN EnforceBlock(c)
  ELSE IF Truthy(resp, "ok") THEN ShowWarningOverlay(c, now)
  ELSE c

\* the callback the sender of a message runs on its response
OnResponse(who, c, resp, answer, now) ==
  CASE c.phase = "unloaded" -> c
    [] who = "init"   -> OnInitResponse(c, resp, answer, now)
    [] who = "check"  -> OnCheckResponse(c, resp, answer)
    [] who = "record" -> OnRecordResponse(c, resp, now)
    [] OTHER -> c

\* faulty variant: no request while warning notices are rate-limited
ShouldSend_WhenDisplayable(c, now) ==
  c.studentId # NoId /\ ~RateLimited(now, c.lastWarningTime)

\* faulty variant: the request is sent whatever the identity is
ShouldSend_Always(c, now) == TRUE

\* content.js recordInfraction: if (!studentId) return;
ShouldSend(c, now) == c.studentId # NoId

\* the message content.js recordInfraction sends
InfractionMessage(c, t) ==
  [type |-> "recordInfraction", studentId |-> c.studentId,
   infractionType |-> t, details |-> "Page hidden - possible tab switch",
   page |-> "https://exam.example/paper"]

\* ----------------------------------------------------------------- the relay
\* The relay/authority service (server.js) is reachable, failing or slow;
\* changedAt is the number of messages the ledger had received when its
\* condition last changed.
RelayStates == {"reachable", "failing", "slow"}
InitRelay == [state |-> "reachable", changedAt |-> 0]

\* ------------------------------------------------------------------- state
VARIABLES
  storage,     \* chrome.storage.local: [infractions, blockedIds]
  clock,       \* the value new Date() returns
  pc,          \* per handler slot: where the handler of its message is
  msg,         \* per slot: the message being handled
  data,        \* per slot: the copy of storage its get callback received
  pending,     \* per slot: the mappings passed to chrome.storage.local.set
  response,    \* per slot: the response the set callback will send
  last,        \* the exchange most recently completed by sendResponse
  nreq,        \* messages received so far
  noverlap,    \* messages received while another handler was in flight
  accepted,    \* per identity: recordInfraction responses with ok:true
  blocksSent,  \* per identity: responses with ok:true and blocked:true
  adminSeen,   \* an unblockId or clearAllData message has been received
  unblockApplied, \* the identities an unblockId handler has stored a change for
  unblocked,   \* per identity: its latest completed change was an unblockId
               \* that found it blocked
  sess,        \* the session of the monitored page
  owner,       \* per slot: whose callback receives the response
  wall,        \* the value Date.now() returns in the page
  det,         \* the local variables of the detector under study
  relay        \* the relay/authority service as the extension sees it

vars == << storage, clock, pc, msg, data, pending, response, last, nreq, noverlap,
           accepted, blocksSent, adminSeen, unblockApplied, unblocked, sess, owner, wall, det, relay >>

AllIdle == \A r \in Slots : pc[r] = "idle"

Init ==
  /\ storage = EmptyLedger
  /\ clock = 0
  /\ pc = [r \in Slots |-> "idle"]
  /\ msg = [r \in Slots |-> Nil]
  /\ data = [r \in Slots |-> Nil]
  /\ pending = [r \in Slots |-> Nil]
  /\ response = [r \in Slots |-> Nil]
  /\ last = Nil
  /\ nreq = 0
  /\ noverlap = 0
  /\ accepted = [i \in Identities |-> 0]
  /\ blocksSent = [i \in Identities |-> 0]
  /\ adminSeen = FALSE
  /\ unblockApplied = {}
  /\ unblocked = [i \in Identities |-> FALSE]
  /\ sess = InitSession
  /\ owner = [r \in Slots |-> "env"]
  /\ wall = StartTime
  /\ det = Nil
  /\ relay = InitRelay

\* sendResponse(resp) for the message of slot r; the slot is free again.
Respond(r, resp) ==
  /\ last' = [msg |-> msg[r], data |-> data[r], response |-> resp,
               afterUnblock |-> msg[r].type = "recordInfraction"
                                /\ unblocked[msg[r].studentId]]
  /\ pc' = [pc EXCEPT ![r] = "idle"]
  /\ msg' = [msg EXCEPT ![r] = Nil]
  /\ data' = [data EXCEPT ![r] = Nil]
  /\ pending' = [pending EXCEPT ![r] = Nil]
  /\ response' = [response EXCEPT ![r] = Nil]
  /\ accepted' =
       IF msg[r].type = "recordInfraction" /\ resp.ok
       THEN [accepted EXCEPT ![msg[r].studentId] = @ + 1] ELSE accepted
  /\ blocksSent' =
       IF msg[r].type = "recordInfraction" /\ resp.ok /\ "blocked" \in DOMAIN resp
       THEN [blocksSent EXCEPT ![msg[r].studentId] = @ + 1] ELSE blocksSent
  /\ unblocked' =
       CASE msg[r].type = "unblockId" ->
              [unblocked EXCEPT ![msg[r].studentId] =
                 Has(data[r].blockedIds, msg[r].studentId)]
         [] msg[r].type = "recordInfraction" /\ resp.ok ->
              [unblocked EXCEPT ![msg[r].studentId] = FALSE]
         [] msg[r].type = "clearAllData" -> [i \in Identities |-> FALSE]
         [] OTHER -> unblocked
  /\ owner' = [owner EXCEPT ![r] = "env"]
  /\ IF owner[r] = "env"
     THEN UNCHANGED sess
     ELSE \E answer \in BOOLEAN :
            sess' = OnResponse(owner[r], sess, resp, answer, wall)

\* chrome.runtime.onMessage fires with message m; the handler runs up to its
\* first storage call.
Accept(r, m) ==
  /\ pc[r] = "idle"
  /\ nreq < MaxRequests
  /\ nreq' = nreq + 1
  /\ AllIdle \/ noverlap < MaxOverlaps
  /\ noverlap' = IF AllIdle THEN noverlap ELSE noverlap + 1
  /\ adminSeen' = (adminSeen \/ m.type \in {"unblockId", "clearAllData"})
  /\ UNCHANGED << storage, clock, data, response, accepted, blocksSent,
                  unblockApplied, unblocked >>
  /\ IF m.type = "recordInfraction" /\ m.studentId = NoId
     THEN \* if (!studentId) sendResponse({ ok: false, reason: 'no-id' })
          /\ last' = [msg |-> m, data |-> Nil,
                      response |-> [ok |-> FALSE, reason |-> "no-id"],
                      afterUnblock |-> FALSE]
          /\ UNCHANGED << pc, msg, pending >>
     ELSE IF m.type = "clearAllData"
     THEN \* chrome.storage.local.set({ infractions: {}, blockedIds: {} }, ...)
          /\ pc' = [pc EXCEPT ![r] = "set"]
          /\ msg' = [msg EXCEPT ![r] = m]
          /\ pending' = [pending EXCEPT ![r] = EmptyLedger]
          /\ UNCHANGED last
     ELSE \* chrome.storage.local.get([...], callback)
          /\ pc' = [pc EXCEPT ![r] = "get"]
          /\ msg' = [msg EXCEPT ![r] = m]
          /\ UNCHANGED << pending, last >>

\* A message from a sender other than the modelled session.
Receive(r, m) == Accept(r, m) /\ UNCHANGED << sess, owner, wall, det, relay >>

\* chrome.storage.local.get reads the stored mappings for slot r's callback.
StorageGet(r) ==
  /\ pc[r] = "get"
  /\ pc' = [pc EXCEPT ![r] = "callback"]
  /\ data' = [data EXCEPT ![r] = storage]
  /\ UNCHANGED << storage, clock, msg, pending, response, last, nreq, noverlap,
                  accepted, blocksSent, adminSeen, unblockApplied, unblocked, sess, owner,
                  wall, det, relay >>

\* The get callback of a recordInfraction message.
RecordInfractionCallback(r) ==
  /\ pc[r] = "callback"
  /\ msg[r].type = "recordInfraction"
  /\ UNCHANGED << storage, nreq, noverlap, adminSeen, unblockApplied, wall, det, relay >>
  /\ IF AlreadyBlocked(data[r].blockedIds, msg[r].studentId)
     THEN /\ Respond(r, [ok |-> FALSE, blocked |-> TRUE,
                         reason |-> "already-blocked"])
          /\ UNCHANGED clock
     ELSE LET out == RecordInfraction(data[r], msg[r], clock)
          IN /\ pending' = [pending EXCEPT ![r] =
                   [infractions |-> out.infractions,
                    blockedIds |-> out.blockedIds]]
             /\ response' = [response EXCEPT ![r] = out.response]
             /\ pc' = [pc EXCEPT ![r] = "set"]
             /\ clock' = clock + 1
             /\ UNCHANGED << msg, data, last, accepted, blocksSent,
                             unblocked, sess, owner >>

\* The get callback of an isBlocked message.
IsBlockedCallback(r) ==
  /\ pc[r] = "callback"
  /\ msg[r].type = "isBlocked"
  /\ Respond(r, IsBlockedResponse(data[r], msg[r].studentId))
  /\ UNCHANGED << storage, clock, nreq, noverlap, adminSeen, unblockApplied, wall, det, relay >>

\* The get callback of a getStatus message.
GetStatusCallback(r) ==
  /\ pc[r] = "callback"
  /\ msg[r].type = "getStatus"
  /\ Respond(r, GetStatusResponse(data[r]))
  /\ UNCHANGED << storage, clock, nreq, noverlap, adminSeen, unblockApplied, wall, det, relay >>

\* The get callback of an unblockId message.
UnblockIdCallback(r) ==
  /\ pc[r] = "callback"
  /\ msg[r].type = "unblockId"
  /\ pending' = [pending EXCEPT ![r] = UnblockId(data[r], msg[r].studentId)]
  /\ response' = [response EXCEPT ![r] = [ok |-> TRUE]]
  /\ pc' = [pc EXCEPT ![r] = "set"]
  /\ UNCHANGED << storage, clock, msg, data, last, nreq, noverlap, accepted,
                  blocksSent, adminSeen, unblockApplied, unblocked, sess, owner, wall, det, relay >>

\* chrome.storage.local.set stores both mappings passed by slot r's handler.
StorageSet(r) ==
  /\ pc[r] = "set"
  /\ storage' = [infractions |-> pending[r].infractions,
                 blockedIds |-> pending[r].blockedIds]
  /\ pc' = [pc EXCEPT ![r] = "setcb"]
  /\ unblockApplied' = IF msg[r].type = "unblockId"
                       THEN unblockApplied \cup {msg[r].studentId}
                       ELSE unblockApplied
  /\ UNCHANGED << clock, msg, data, pending, response, last, nreq, noverlap,
                  accepted, blocksSent, adminSeen, unblocked, sess, owner,
                  wall, det, relay >>

\* The set callback: sendResponse(response).
SetCallback(r) ==
  /\ pc[r] = "setcb"
  /\ Respond(r, IF msg[r].type = "clearAllData" THEN [ok |-> TRUE]
                ELSE response[r])
  /\ UNCHANGED << storage, clock, nreq, noverlap, adminSeen, unblockApplied, wall, det, relay >>

Step(r) ==
  \/ StorageGet(r)
  \/ RecordInfractionCallback(r)
  \/ IsBlockedCallback(r)
  \/ GetStatusCallback(r)
  \/ UnblockIdCallback(r)
  \/ StorageSet(r)
  \/ SetCallback(r)

\* Messages arrive at any time: handlers interleave at their storage calls.
Next ==
  \/ \E r \in Slots, m \in Messages : Receive(r, m)
  \/ \E r \in Slots : Step(r)

Spec == Init /\ [][Next]_vars

\* One message at a time: a message arrives only when no handler is in flight.
ReceiveSeq(r, m) == AllIdle /\ Receive(r, m)

NextSeq ==
  \/ \E r \in Slots, m \in Messages : ReceiveSeq(r, m)
  \/ \E r \in Slots : Step(r)

SeqSpec == Init /\ [][NextSeq]_vars

\* Only the handlers that write the ledger, interleaved: recordInfraction and
\* unblockId messages for any identity.
WriterMessages ==
  [type : {"recordInfraction"}, studentId : Identities,
   infractionType : {"TAB_SWITCH"}, details : InputDetails, page : InputPages]
  \cup [type : {"unblockId"}, studentId : Identities]

ReceiveWriter(r, m) == nreq < MaxWriterRequests /\ Receive(r, m)

StepWriter(r) ==
  \/ StorageGet(r)
  \/ RecordInfractionCallback(r)
  \/ UnblockIdCallback(r)
  \/ StorageSet(r)
  \/ SetCallback(r)

NextWriter ==
  \/ \E r \in Slots, m \in WriterMessages : ReceiveWriter(r, m)
  \/ \E r \in Slots : StepWriter(r)

WriterSpec == Init /\ [][NextWriter]_vars

\* ------------------------------------------------------ session actions
ledgerVars == << storage, clock, pc, msg, data, pending, response, last, nreq,
                 noverlap, accepted, blocksSent, adminSeen, unblockApplied, unblocked >>

\* the identity localStorage holds when the page loads, and the values a
\* storage event of another context can carry (null when the key is removed)
SessionIds == {"s1"}
StorageEventValues == {NoId, "s1"}

FreeSlot(r) == pc[r] = "idle" /\ \A q \in Slots : q < r => pc[q] # "idle"

\* chrome.runtime.sendMessage(m, callback) called by the page
Send(m, who) ==
  /\ nreq < MaxSessionRequests
  /\ \E r \in Slots :
       /\ FreeSlot(r)
       /\ Accept(r, m)
       /\ owner' = [owner EXCEPT ![r] = who]

\* content.js recordInfraction(t, details), called in a handler that leaves
\* the session as `after`
Emit(t, after) ==
  /\ sess.emitted < MaxEmitted
  /\ IF ShouldSend(sess, wall)
     THEN /\ Send(InfractionMessage(sess, t), "record")
          /\ sess' = [after EXCEPT !.emitted = @ + 1, !.sent = @ + 1]
     ELSE /\ sess' = [after EXCEPT !.emitted = @ + 1]
          /\ UNCHANGED << ledgerVars, owner >>

\* initializeMonitoring() up to its isBlocked request
InitializeMonitoring ==
  /\ sess.phase = "loading"
  /\ \E i \in SessionIds :
       /\ Send([type |-> "isBlocked", studentId |-> i], "init")
       /\ sess' = [sess EXCEPT !.studentId = i, !.phase = "checking"]
  /\ UNCHANGED << wall, det, relay >>

\* an input guard fires (visibilitychange with the page hidden)
InputGuard ==
  /\ sess.phase # "unloaded"
  /\ sess.guards
  /\ Emit("TAB_SWITCH", sess)
  /\ UNCHANGED << wall, det, relay >>

\* the periodic check of timer t runs and observes a violation
DetectorFires(t) ==
  /\ sess.phase # "unloaded"
  /\ t \in sess.timers \ {"cameraRetry"}
  /\ Emit(DetectorType[t],
          IF t \in OverlayingDetectors THEN ShowWarningOverlay(sess, wall)
          ELSE sess)
  /\ UNCHANGED << wall, det, relay >>

\* setTimeout(() => setupCameraMonitoring(), 5000) fires
RetryFires ==
  /\ sess.phase # "unloaded"
  /\ "cameraRetry" \in sess.timers
  /\ sess' = [sess EXCEPT !.timers = @ \ {"cameraRetry"}, !.camPending = TRUE]
  /\ UNCHANGED << ledgerVars, owner, wall, det, relay >>

\* getUserMedia resolves: the rest of setupCameraMonitoring's try block
CameraGranted ==
  /\ sess.phase # "unloaded"
  /\ sess.camPending
  /\ sess' = [sess EXCEPT !.camPending = FALSE,
                          !.cameraStream = TRUE,
                          !.audioContext = TRUE,
                          !.timers = @ \cup {"faceDetectionInterval",
                                             "audioDetectionInterval",
                                             "cameraLiveness"}]
  /\ UNCHANGED << ledgerVars, owner, wall, det, relay >>

\* getUserMedia rejects: setupCameraMonitoring's catch block
CameraDenied ==
  /\ sess.phase # "unloaded"
  /\ sess.camPending
  /\ Emit("CAMERA_OFF",
          ShowWarningOverlay(
            [sess EXCEPT !.camPending = FALSE,
                         !.timers = @ \cup {"cameraRetry"}], wall))
  /\ UNCHANGED << wall, det, relay >>

\* the first detectMultipleMonitors() resolves: the rest of
\* startMonitorDetection
MonitorCheckResolves(detected) ==
  /\ sess.phase # "unloaded"
  /\ sess.monPending
  /\ LET c == [sess EXCEPT !.monPending = FALSE,
                           !.timers = @ \cup {"monitorCheckInterval",
                                              "windowMovement"}]
     IN IF detected
        THEN Emit("MULTIPLE_MONITORS", ShowWarningOverlay(c, wall))
        ELSE sess' = c /\ UNCHANGED << ledgerVars, owner >>
  /\ UNCHANGED << wall, det, relay >>

\* the 'ended' listener of the camera's video track
TrackEnded ==
  /\ sess.phase # "unloaded"
  /\ sess.cameraStream
  /\ Emit("CAMERA_OFF", StopAllMonitoring(sess))
  /\ UNCHANGED << wall, det, relay >>

\* the storage listener: studentId = e.newValue; checkBlockedStatus()
StorageEvent(v) ==
  /\ sess.phase # "unloaded"
  /\ sess.studentId # v
  /\ sess' = [sess EXCEPT !.studentId = v]
  /\ IF v = NoId
     THEN UNCHANGED << ledgerVars, owner >>
     ELSE Send([type |-> "isBlocked", studentId |-> v], "check")
  /\ UNCHANGED << wall, det, relay >>

\* time passes in the page
Tick ==
  /\ wall < StartTime + MaxTicks * TickMs
  /\ wall' = wall + TickMs
  /\ UNCHANGED << ledgerVars, sess, owner, det, relay >>

\* a recordInfraction message for the session's identity from another page
OtherPageRecords ==
  /\ nreq < MaxSessionRequests
  /\ \E r \in Slots, i \in SessionIds :
       /\ FreeSlot(r)
       /\ Receive(r, [type |-> "recordInfraction", studentId |-> i,
                      infractionType |-> "TAB_SWITCH",
                      details |-> "Page hidden - possible tab switch",
                      page |-> "https://exam.example/paper"])

StepSession(r) ==
  \/ StorageGet(r)
  \/ RecordInfractionCallback(r)
  \/ IsBlockedCallback(r)
  \/ StorageSet(r)
  \/ SetCallback(r)

\* one handler of the page runs
SessionStep ==
  \/ InitializeMonitoring
  \/ InputGuard
  \/ \E t \in NamedIntervals \cup UnnamedTimers : DetectorFires(t)
  \/ RetryFires
  \/ CameraGranted
  \/ CameraDenied
  \/ \E detected \in BOOLEAN : MonitorCheckResolves(detected)
  \/ TrackEnded
  \/ \E v \in StorageEventValues : StorageEvent(v)

\* The page, another page of the same identity and the ledger's handlers,
\* interleaved.
NextSession ==
  \/ SessionStep
  \/ Tick
  \/ OtherPageRecords
  \/ \E r \in Slots : StepSession(r)

\* The ledger after k TAB_SWITCH infractions of identity i were recorded one
\* after the other, starting from the ledger `led` at time now.
RECURSIVE LedgerAfter(_, _, _, _)
LedgerAfter(led, i, k, now) ==
  IF k = 0 \/ AlreadyBlocked(led.blockedIds, i) THEN led
  ELSE LET out == RecordInfraction(led,
                    [type |-> "recordInfraction", studentId |-> i,
                     infractionType |-> "TAB_SWITCH",
                     details |-> "Page hidden - possible tab switch",
                     page |-> "https://exam.example/paper"], now)
       IN LedgerAfter([infractions |-> out.infractions,
                       blockedIds |-> out.blockedIds], i, k - 1, now + 1)

\* The page loads when the ledger already holds k infractions of its identity.
InitSessionSpec ==
  \E k \in 0..(INFRACTION_THRESHOLD + 1) :
    /\ storage = LedgerAfter(EmptyLedger, "s1", k, 0)
    /\ clock = k
    /\ pc = [r \in Slots |-> "idle"]
    /\ msg = [r \in Slots |-> Nil]
    /\ data = [r \in Slots |-> Nil]
    /\ pending = [r \in Slots |-> Nil]
    /\ response = [r \in Slots |-> Nil]
    /\ last = Nil
    /\ nreq = 0
    /\ noverlap = 0
    /\ accepted = [i \in Identities |-> IF i = "s1" THEN k ELSE 0]
    /\ blocksSent = [i \in Identities |->
                       IF i = "s1" /\ k > INFRACTION_THRESHOLD THEN 1 ELSE 0]
    /\ adminSeen = FALSE
    /\ unblockApplied = {}
    /\ unblocked = [i \in Identities |-> FALSE]
    /\ sess = InitSession
    /\ owner = [r \in Slots |-> "env"]
    /\ wall = StartTime
    /\ det = Nil
    /\ relay = InitRelay

SessionSpec == InitSessionSpec /\ [][NextSession]_vars

\* The page as the ledger's only client, its handlers running while no
\* message of it is being handled; time passes at any moment.
QuietSessionStep == AllIdle /\ SessionStep

NextDisplay ==
  \/ QuietSessionStep
  \/ Tick
  \/ \E r \in Slots : StepSession(r)

DisplaySpec == InitSessionSpec /\ [][NextDisplay]_vars

\* ------------------------------------------------------- reading the ledger
Count(i) == IF Has(storage.infractions, i) THEN storage.infractions[i].count ELSE 0
Warnings(i) == IF Has(storage.infractions, i) THEN storage.infractions[i].warnings ELSE 0
Blocked(i) == Has(storage.blockedIds, i)

\* what the ledger `s` holds for identity i
Entry(s, i) ==
  [record |-> IF Has(s.infractions, i) THEN s.infractions[i] ELSE Nil,
   block  |-> IF Has(s.blockedIds, i) THEN s.blockedIds[i] ELSE Nil]

\* the handler of slot r changes the ledger: recordInfraction or unblockId
Mutates(r) == pc[r] # "idle" /\ msg[r].type \in {"recordInfraction", "unblockId"}
\* slot r has read the ledger and has not yet written it back
InWindow(r) == pc[r] \in {"callback", "set"}

\* Identity i is the only one that requests were recorded for, and nothing
\* but recordInfraction, isBlocked and getStatus has been received.
OnlyRecordsFor(i) ==
  /\ AllIdle
  /\ ~adminSeen
  /\ \A o \in Identities \ {i} : accepted[o] = 0

\* ------------------------------------------------------------------ claims

\* C1: when K <= T+1 recordInfraction requests for one fresh identity have all
\* been answered, whatever the interleaving of their storage reads and
\* writes, the identity's count is K.
C1_NoLostIncrement ==
  \A i \in Identities :
    (OnlyRecordsFor(i) /\ accepted[i] <= INFRACTION_THRESHOLD + 1)
      => Count(i) = accepted[i]

\* C2: when K recordInfraction requests for one fresh identity have all been
\* answered, the identity has a BlockRecord exactly if K crossed the threshold,
\* and exactly one of the requests was answered with a fresh block.
C2_ExactlyOneBlock ==
  \A i \in Identities :
    OnlyRecordsFor(i) =>
      /\ Blocked(i) <=> (accepted[i] > INFRACTION_THRESHOLD)
      /\ blocksSent[i] = (IF accepted[i] > INFRACTION_THRESHOLD THEN 1 ELSE 0)

\* C3: no two handlers that change the same identity are both between their
\* storage read and their storage write, and while a handler is between the
\* two, the ledger still holds for its identity what the handler has read.
C3_SerializedPerIdentity ==
  /\ \A r1, r2 \in Slots :
       (r1 # r2 /\ Mutates(r1) /\ Mutates(r2)
          /\ msg[r1].studentId = msg[r2].studentId)
         => ~(InWindow(r1) /\ InWindow(r2))
  /\ \A r \in Slots :
       (Mutates(r) /\ InWindow(r))
         => Entry(storage, msg[r].studentId) = Entry(data[r], msg[r].studentId)

\* C4: the storage write of a recordInfraction or unblockId handler for
\* identity A leaves the record and the BlockRecord of every other identity as
\* they were.
C4_IndependentIdentities ==
  [][\A r \in Slots :
       (Mutates(r) /\ pc[r] = "set" /\ pc'[r] = "setcb")
         => \A b \in Identities \ {msg[r].studentId} :
              Entry(storage', b) = Entry(storage, b)]_vars

\* C10: as long as no unblockId (and no clearAllData) request has been
\* received, a BlockRecord that exists is still there, unchanged, after every
\* step of every recordInfraction, isBlocked and getStatus handler.
C10_BlockRecordStable ==
  [][~adminSeen' =>
       \A i \in Identities :
         Blocked(i) =>
           /\ Has(storage'.blockedIds, i)
           /\ storage'.blockedIds[i] = storage.blockedIds[i]]_vars

\* -------------------------------------------- one request at a time (SeqSpec)

\* The latest exchange was a recordInfraction for an identity, and no handler
\* is in flight: `last.data` is the ledger before it, `storage` the one after.
LastIsRecord ==
  /\ AllIdle
  /\ "msg" \in DOMAIN last
  /\ last.msg.type = "recordInfraction"
  /\ last.msg.studentId # NoId

LastIsUnblock ==
  /\ AllIdle
  /\ "msg" \in DOMAIN last
  /\ last.msg.type = "unblockId"

\* the record of identity i in ledger s, as the handler sees it when absent
RecordIn(s, i) == IF Has(s.infractions, i) THEN s.infractions[i] ELSE NewRecord

\* the default message of the infraction types the requests carry
MessageOf(t) ==
  IF t = "TAB_SWITCH" THEN "Tab switching detected" ELSE "Unknown infraction"

C6_BlockedIffOverTPlus1 ==
  \A i \in Identities :
    (AllIdle /\ ~adminSeen) =>
      /\ Blocked(i) <=> (accepted[i] > INFRACTION_THRESHOLD + 1)
      /\ ~Blocked(i) => Warnings(i) = accepted[i]

\* C6 (amended): after N accepted infractions against a fresh identity, one
\* at a time, the identity is Blocked iff N > T, and Active with
\* warnings = N otherwise.
C6_BlockedIffOverT ==
  \A i \in Identities :
    (AllIdle /\ ~adminSeen) =>
      /\ Blocked(i) <=> (accepted[i] > INFRACTION_THRESHOLD)
      /\ ~Blocked(i) => Warnings(i) = accepted[i]

\* a fresh identity has been blocked by its third accepted infraction
C6_Witness ==
  /\ AllIdle
  /\ ~adminSeen
  /\ \E i \in Identities : accepted[i] = 3 /\ Blocked(i)

\* C7: a recordInfraction for an identity that has a BlockRecord is answered
\* {ok:false, blocked:true, reason:'already-blocked'} and the ledger after it
\* equals the ledger before it.
C7_RejectedWhenBlocked ==
  (LastIsRecord /\ Has(last.data.blockedIds, last.msg.studentId)) =>
    /\ last.response = [ok |-> FALSE, blocked |-> TRUE,
                        reason |-> "already-blocked"]
    /\ storage = last.data

\* a recordInfraction for a blocked identity has just been answered
C7_Witness ==
  /\ LastIsRecord
  /\ Has(last.data.blockedIds, last.msg.studentId)
  /\ Blocked(last.msg.studentId)

\* C8: unblockId on a Blocked identity returns ok and leaves it with count 0,
\* warnings 0 and no BlockRecord; the next recordInfraction for that identity
\* is accepted and yields warnings 1.
C8_UnblockBlocked ==
  /\ (LastIsUnblock /\ Has(last.data.blockedIds, last.msg.studentId)) =>
       /\ last.response = [ok |-> TRUE]
       /\ ~Blocked(last.msg.studentId)
       /\ Has(storage.infractions, last.msg.studentId)
       /\ Count(last.msg.studentId) = 0
       /\ Warnings(last.msg.studentId) = 0
  /\ (LastIsRecord /\ last.afterUnblock) =>
       /\ last.response.ok
       /\ "blocked" \notin DOMAIN last.response
       /\ last.response.warnings = 1
       /\ Warnings(last.msg.studentId) = 1

\* a recordInfraction has just been answered for an identity whose previous
\* change was the unblockId that cleared its BlockRecord
C8_Witness ==
  /\ LastIsRecord
  /\ last.afterUnblock
  /\ Len(RecordIn(storage, last.msg.studentId).events) > 3

\* C9: unblockId on an identity without a BlockRecord returns ok and the
\* ledger after it equals the ledger before it.
C9_UnblockActiveNoOp ==
  (LastIsUnblock /\ ~Has(last.data.blockedIds, last.msg.studentId)) =>
    /\ last.response = [ok |-> TRUE]
    /\ storage = last.data

\* ------------------------------------------------- warnings of an identity

WarningsIn(s, i) == IF Has(s.infractions, i) THEN s.infractions[i].warnings ELSE 0

\* C11: over recordInfraction, unblockId, isBlocked and getStatus requests
\* handled one at a time, the warnings of an identity that is Active before
\* and after a step do not decrease in that step, and the storage write of a
\* recordInfraction leaves warnings one above the value its handler read.
C11_WarningsMonotone ==
  [][(\A r \in Slots : ~(pc[r] = "set" /\ msg[r].type = "clearAllData")) =>
       /\ \A i \in Identities :
            (~Blocked(i) /\ ~Has(storage'.blockedIds, i))
              => WarningsIn(storage', i) >= WarningsIn(storage, i)
       /\ \A r \in Slots :
            (pc[r] = "set" /\ pc'[r] = "setcb"
               /\ msg[r].type = "recordInfraction")
              => WarningsIn(storage', msg[r].studentId)
                   = WarningsIn(data[r], msg[r].studentId) + 1]_vars

\* C12: in every ledger state, an identity without a BlockRecord has
\* warnings in 0..T.
C12_ActiveWithinThreshold ==
  \A i \in Identities :
    ~Blocked(i) => Warnings(i) \in 0..INFRACTION_THRESHOLD

\* after interleaved handlers, an identity with more than T accepted
\* infractions is stored Active with warnings = T
C12_Witness ==
  \E i \in Identities :
    /\ ~Blocked(i)
    /\ Warnings(i) = INFRACTION_THRESHOLD
    /\ accepted[i] > INFRACTION_THRESHOLD

\* ---------------------------------------------------------- the detectors
\* Each detector is a setInterval callback over variables local to the
\* function that started it.  det holds those variables, the observation
\* each check made (checks) and the infractions each check emitted by calling
\* recordInfraction (emitted); what recordInfraction does with them is
\* DetectorFires above.
Quiescent ==
  /\ storage = EmptyLedger
  /\ clock = 0
  /\ pc = [r \in Slots |-> "idle"]
  /\ msg = [r \in Slots |-> Nil]
  /\ data = [r \in Slots |-> Nil]
  /\ pending = [r \in Slots |-> Nil]
  /\ response = [r \in Slots |-> Nil]
  /\ last = Nil
  /\ nreq = 0
  /\ noverlap = 0
  /\ accepted = [i \in Identities |-> 0]
  /\ blocksSent = [i \in Identities |-> 0]
  /\ adminSeen = FALSE
  /\ unblockApplied = {}
  /\ unblocked = [i \in Identities |-> FALSE]
  /\ sess = InitSession
  /\ owner = [r \in Slots |-> "env"]
  /\ wall = StartTime
  /\ relay = InitRelay

\* ---- face detection (startFaceDetection)
\* A frame: the video's width, the skin-tone and total pixels of the sampled
\* centre region, and the grid regions brighter than 100.
Frames ==
  [videoWidth : {0, 640}, skinPixels : {0, 11}, totalPixels : {100},
   brightRegions : {0, 4}]

\* detectFaceInImageData: (skinPixels / totalPixels) > 0.1
DetectFace(f) == f.skinPixels * 10 > f.totalPixels

\* detectMultipleFaces: regions.length > 3
DetectMultipleFaces(f) == f.brightRegions > 3

\* what a check observes
FaceObservation(f) ==
  IF f.videoWidth = 0 THEN "skipped"
  ELSE IF DetectFace(f) THEN "face" ELSE "noFace"

\* One run of the face interval callback on frame f with the counter at n:
\* the new counter and the infractions emitted.
FaceCheck(n, f) ==
  IF f.videoWidth = 0 THEN [consecutiveNoFace |-> n, emits |-> {}]
  ELSE LET multi == IF DetectMultipleFaces(f) THEN {"MULTIPLE_FACES"} ELSE {}
       IN IF ~DetectFace(f)
          THEN IF n + 1 >= 3
               THEN [consecutiveNoFace |-> 0, emits |-> {"NO_FACE"} \cup multi]
               ELSE [consecutiveNoFace |-> n + 1, emits |-> multi]
          ELSE [consecutiveNoFace |-> 0, emits |-> multi]

InitFaceSpec ==
  /\ Quiescent
  /\ det = [consecutiveNoFace |-> 0, checks |-> << >>, emitted |-> << >>]

FaceCheckRuns(f) ==
  /\ Len(det.checks) < MaxChecks
  /\ LET out == FaceCheck(det.consecutiveNoFace, f)
     IN det' = [consecutiveNoFace |-> out.consecutiveNoFace,
                checks  |-> Append(det.checks, FaceObservation(f)),
                emitted |-> Append(det.emitted, out.emits)]
  /\ UNCHANGED << ledgerVars, sess, owner, wall, relay >>

NextFace == \E f \in Frames : FaceCheckRuns(f)

FaceSpec == InitFaceSpec /\ [][NextFace]_vars

\* the number of consecutive checks observing `what` that end at check n
RECURSIVE RunEnding(_, _, _)
RunEnding(checks, what, n) ==
  IF n = 0 \/ checks[n] # what THEN 0
  ELSE 1 + RunEnding(checks, what, n - 1)

\* ---- audio monitoring (startAudioMonitoring)
\* The analyser's byte frequency data of one check: the sum of its bins and
\* their number (fftSize 256 gives 128 bins).
AudioBuffers ==
  [sum : {29 * 128, 30 * 128, 30 * 128 + 1, 31 * 128}, bufferLength : {128}]

\* faulty variant: a mean of exactly the threshold counts as a hit
AboveAudioThreshold_Inclusive(b) == b.sum >= AudioThreshold * b.bufferLength

\* average = sum / bufferLength; average > 30
AboveAudioThreshold(b) == b.sum > AudioThreshold * b.bufferLength

\* One run of the audio interval callback on buffer b with the counter at n.
AudioCheck(n, b) ==
  IF AboveAudioThreshold(b)
  THEN IF n + 1 >= 3
       THEN [consecutiveNoise |-> 0, emits |-> {"AUDIO_DETECTED"}]
       ELSE [consecutiveNoise |-> n + 1, emits |-> {}]
  ELSE [consecutiveNoise |-> 0, emits |-> {}]

InitAudioSpec ==
  /\ Quiescent
  /\ det = [consecutiveNoise |-> 0, checks |-> << >>, emitted |-> << >>]

AudioCheckRuns(b) ==
  /\ Len(det.checks) < MaxChecks
  /\ LET out == AudioCheck(det.consecutiveNoise, b)
     IN det' = [consecutiveNoise |-> out.consecutiveNoise,
                checks  |-> Append(det.checks, b),
                emitted |-> Append(det.emitted, out.emits)]
  /\ UNCHANGED << ledgerVars, sess, owner, wall, relay >>

NextAudio == \E b \in AudioBuffers : AudioCheckRuns(b)

AudioSpec == InitAudioSpec /\ [][NextAudio]_vars

\* the number of consecutive buffers with a mean above 30 that end at check n
RECURSIVE LoudRunEnding(_, _)
LoudRunEnding(checks, n) ==
  IF n = 0 \/ checks[n].sum <= 30 * checks[n].bufferLength THEN 0
  ELSE 1 + LoudRunEnding(checks, n - 1)

\* ---- pointer-motion tracking (startEyeTracking)
Abs(n) == IF n < 0 THEN -n ELSE n

\* the mousemove listener: push the sample, keep the latest 50
PushMove(moves, sample) ==
  LET pushed == Append(moves, sample)
  IN IF Len(pushed) > 50 THEN Tail(pushed) ELSE pushed

\* k mousemove events 1 ms apart, the pointer moving `step` px each time
RECURSIVE PushMoves(_, _, _, _, _)
PushMoves(moves, k, step, x, now) ==
  IF k = 0 THEN moves
  ELSE PushMoves(PushMove(moves, [x |-> x + step, y |-> 0, time |-> now + 1]),
                 k - 1, step, x + step, now + 1)

\* the pairs of successive samples with dx / dt > 2 or dy / dt > 2
RapidChanges(recentMoves) ==
  Cardinality({ i \in 2..Len(recentMoves) :
    LET dx == Abs(recentMoves[i].x - recentMoves[i - 1].x)
        dy == Abs(recentMoves[i].y - recentMoves[i - 1].y)
        dt == recentMoves[i].time - recentMoves[i - 1].time
    IN dt > 0 /\ (dx > 2 * dt \/ dy > 2 * dt) })

\* what a check observes in the sample window
EyeObservation(moves) ==
  IF Len(moves) < 10 THEN "tooFew"
  ELSE IF RapidChanges(SliceLast(moves, 20)) > 10 THEN "qualifying"
  ELSE "nonQualifying"

\* One run of the eye-tracking interval callback on the window `moves` with
\* the counter at n.
EyeCheck(moves, n) ==
  IF Len(moves) < 10
  THEN [mouseMovements |-> moves, suspiciousPatterns |-> n, emits |-> {}]
  ELSE IF RapidChanges(SliceLast(moves, 20)) > 10
       THEN IF n + 1 >= 2
            THEN [mouseMovements |-> << >>, suspiciousPatterns |-> 0,
                  emits |-> {"EYE_MOVEMENT"}]
            ELSE [mouseMovements |-> << >>, suspiciousPatterns |-> n + 1,
                  emits |-> {}]
       ELSE [mouseMovements |-> << >>, suspiciousPatterns |-> 0,
             emits |-> {}]

\* the pointer moves in bursts of these many samples, at these px per ms
BurstSizes == {4, 12}
BurstSteps == {1, 3}

InitEyeSpec ==
  /\ Quiescent
  /\ det = [mouseMovements |-> << >>, suspiciousPatterns |-> 0,
            x |-> 0, now |-> 0, steps |-> 0,
            checks |-> << >>, emitted |-> << >>, windows |-> << >>]

MouseMoves(k, step) ==
  /\ det.steps < MaxEyeSteps
  /\ det' = [det EXCEPT
       !.mouseMovements = PushMoves(@, k, step, det.x, det.now),
       !.x = @ + k * step,
       !.now = @ + k,
       !.steps = @ + 1]
  /\ UNCHANGED << ledgerVars, sess, owner, wall, relay >>

EyeCheckRuns ==
  /\ det.steps < MaxEyeSteps
  /\ LET out == EyeCheck(det.mouseMovements, det.suspiciousPatterns)
     IN det' = [det EXCEPT
          !.mouseMovements = out.mouseMovements,
          !.suspiciousPatterns = out.suspiciousPatterns,
          !.steps = @ + 1,
          !.checks = Append(@, EyeObservation(det.mouseMovements)),
          !.emitted = Append(@, out.emits),
          !.windows = Append(@, Len(out.mouseMovements))]
  /\ UNCHANGED << ledgerVars, sess, owner, wall, relay >>

NextEye ==
  \/ \E k \in BurstSizes, step \in BurstSteps : MouseMoves(k, step)
  \/ EyeCheckRuns

EyeSpec == InitEyeSpec /\ [][NextEye]_vars

\* ---- multi-monitor heuristic (detectMultipleMonitors)
\* What one check reads from the platform.  `throws` stands for a failing
\* read of window.screen; x, y are window.screenX || window.screenLeft and
\* window.screenY || window.screenTop.
MonitorEnvs ==
  [throws : BOOLEAN,
   screenWidth : {1920, 2500, 3000}, screenHeight : {1000},
   x : {-101, -100, 0, 2020, 2021, 3100, 3101},
   y : {-101, 0, 1100, 1101},
   isExtended : {"undefined", "false", "true"},
   getScreenDetails : {"absent", "denied", "granted"},
   screens : {1, 2}]

NotDetected == [detected |-> FALSE, reason |-> "none", screenCount |-> 0]

\* aspectRatio > 2.5, with aspectRatio = screenWidth / screenHeight
IsUltraWide_AtLeast(e) == 2 * e.screenWidth >= 5 * e.screenHeight
IsUltraWide(e) == 2 * e.screenWidth > 5 * e.screenHeight

OutsideBounds(e) ==
  \/ e.x < -100
  \/ e.y < -100
  \/ e.x > e.screenWidth + 100
  \/ e.y > e.screenHeight + 100

\* Method 7: the enumeration is awaited inside its own try / catch
EnumerationResult_DeniedDetects(e) ==
  IF e.getScreenDetails = "denied" \/ e.screens > 1
  THEN [detected |-> TRUE, reason |-> "multipleDisplays",
        screenCount |-> e.screens]
  ELSE NotDetected
EnumerationResult(e) ==
  IF e.getScreenDetails = "granted" /\ e.screens > 1
  THEN [detected |-> TRUE, reason |-> "multipleDisplays",
        screenCount |-> e.screens]
  ELSE NotDetected

DetectMultipleMonitors(e) ==
  IF e.throws THEN NotDetected
  ELSE IF IsUltraWide(e)
  THEN [detected |-> TRUE, reason |-> "ultraWide", screenCount |-> 0]
  ELSE IF OutsideBounds(e)
  THEN [detected |-> TRUE, reason |-> "outsideBounds", screenCount |-> 0]
  ELSE IF e.isExtended = "true"
  THEN [detected |-> TRUE, reason |-> "extended", screenCount |-> 0]
  ELSE IF e.getScreenDetails # "absent"
  THEN EnumerationResult(e)
  ELSE NotDetected

\* the periodic check of startMonitorDetection
MonitorCheck(e) ==
  LET result == DetectMultipleMonitors(e)
  IN [result |-> result,
      emits |-> IF result.detected THEN {"MULTIPLE_MONITORS"} ELSE {}]

\* the platform's report is drawn once; the periodic check reads it each time
InitMonitorSpec ==
  /\ Quiescent
  /\ \E e \in MonitorEnvs :
       det = [n |-> 0, env |-> e, result |-> NotDetected, emits |-> {}]

MonitorCheckRuns ==
  /\ det.n < MaxChecks
  /\ LET out == MonitorCheck(det.env)
     IN det' = [det EXCEPT !.n = @ + 1, !.result = out.result,
                           !.emits = out.emits]
  /\ UNCHANGED << ledgerVars, sess, owner, wall, relay >>

NextMonitor == MonitorCheckRuns

MonitorSpec == InitMonitorSpec /\ [][NextMonitor]_vars

\* ---- input guards and the screen-capture API
\* the actions the listeners of setupClipboardProtection and
\* setupNavigationProtection intercept, with the infraction type each submits
InterceptType ==
  [ copy            |-> "COPY_PASTE",
    paste           |-> "COPY_PASTE",
    cut             |-> "COPY_PASTE",
    contextmenu     |-> "COPY_PASTE",
    shortcut        |-> "COPY_PASTE",
    devtools        |-> "COPY_PASTE",
    execCommand     |-> "COPY_PASTE",
    externalLink    |-> "NAVIGATION",
    externalSubmit  |-> "NAVIGATION",
    windowOpen      |-> "NEW_TAB" ]

InterceptedActions == DOMAIN InterceptType

\* whether the handler cancels the action: preventDefault() in the
\* listeners, a replacement returning false / null for execCommand and
\* window.open
Cancels ==
  [ a \in InterceptedActions |-> TRUE ]

\* the session, with what each intercepted input and each call of
\* getDisplayMedia did; captureOverridden: navigator.mediaDevices
\* .getDisplayMedia has been replaced
InitGuardSpec ==
  /\ Quiescent
  /\ det = [inputs |-> << >>, captures |-> << >>,
            captureOverridden |-> FALSE]

\* one of the listeners runs on an action of the user or of a page script
InterceptedInput(a) ==
  /\ sess.phase # "unloaded"
  /\ sess.guards
  /\ Emit(InterceptType[a], sess)
  /\ det' = [det EXCEPT !.inputs = Append(@,
       [action |-> a, cancelled |-> Cancels[a],
        submitted |-> IF nreq' > nreq THEN {InterceptType[a]} ELSE {}])]
  /\ UNCHANGED << wall, relay >>

\* the screen-share interval callback runs and finds no indicator: it
\* replaces getDisplayMedia
ScreenShareCheckRuns ==
  /\ sess.phase # "unloaded"
  /\ "screenShareCheckInterval" \in sess.timers
  /\ ~det.captureOverridden
  /\ det' = [det EXCEPT !.captureOverridden = TRUE]
  /\ UNCHANGED << ledgerVars, sess, owner, wall, relay >>

\* a script calls navigator.mediaDevices.getDisplayMedia()
GetDisplayMediaCalled ==
  /\ sess.phase # "unloaded"
  /\ Len(det.captures) < MaxEmitted
  /\ IF det.captureOverridden
     THEN /\ Emit("SCREEN_SHARE", ShowWarningOverlay(sess, wall))
          /\ det' = [det EXCEPT !.captures = Append(@,
               [active |-> sess.monitoringActive, denied |-> TRUE,
                submitted |-> IF nreq' > nreq THEN {"SCREEN_SHARE"} ELSE {}])]
     ELSE /\ det' = [det EXCEPT !.captures = Append(@,
               [active |-> sess.monitoringActive, denied |-> FALSE,
                submitted |-> {}])]
          /\ UNCHANGED << ledgerVars, sess, owner >>
  /\ UNCHANGED << wall, relay >>

NextGuard ==
  \/ InitializeMonitoring
  \/ \E a \in InterceptedActions : InterceptedInput(a)
  \/ ScreenShareCheckRuns
  \/ GetDisplayMediaCalled
  \/ \E v \in StorageEventValues : StorageEvent(v)
  \/ \E r \in Slots : StepSession(r)

GuardSpec == InitGuardSpec /\ [][NextGuard]_vars

\* ---- the ledger beside the relay
\* The calls to the relay the handler of a message of type t makes and
\* awaits before it goes on: background.js has none (every call to the relay
\* is made by the popup, fetchFromBackend / sendToBackend).
RelayCalls_ReportBlocks(t) ==
  IF t = "recordInfraction" THEN {"report"} ELSE {}
RelayCalls(t) == {}

\* whether a handler of a message of type t can go on when the relay is in
\* state s: an awaited call completes only at a reachable relay
RelayPermits(t, s) == RelayCalls(t) = {} \/ s = "reachable"

\* the relay becomes reachable, failing or slow
RelayChanges(s) ==
  /\ s # relay.state
  /\ relay' = [state |-> s, changedAt |-> nreq]
  /\ UNCHANGED << ledgerVars, sess, owner, wall, det >>

\* one message of each type, all about the same identity
RelayMessages ==
  { m \in Messages :
      \/ m.type \in {"getStatus", "clearAllData"}
      \/ /\ m.studentId = "s1"
         /\ m.type = "recordInfraction" => m.infractionType = "TAB_SWITCH" }

ReceiveRelay(r, m) == nreq < MaxRelayRequests /\ ReceiveSeq(r, m)

StepRelay(r) ==
  /\ pc[r] # "idle"
  /\ RelayPermits(msg[r].type, relay.state)
  /\ Step(r)

\* One message at a time, while the relay changes at any moment.
NextRelay ==
  \/ \E r \in Slots, m \in RelayMessages : ReceiveRelay(r, m)
  \/ \E r \in Slots : StepRelay(r)
  \/ \E s \in RelayStates : RelayChanges(s)

RelaySpec == Init /\ [][NextRelay]_vars

\* ---- blocking, unblocking and blocking again
\* recordInfraction and unblockId messages about one identity
BlockMessages ==
  { m \in WriterMessages : m.studentId = "s1" }

\* One message at a time, the ledger holding 0 .. T + 1 infractions of the
\* identity at the start.
NextBlock ==
  \/ \E r \in Slots, m \in BlockMessages : ReceiveSeq(r, m)
  \/ \E r \in Slots : StepWriter(r)

BlockSpec == InitSessionSpec /\ [][NextBlock]_vars

\* ---- the face-presence classifier on pixels (detectFaceInImageData)
\* colours of a pixel, << r, g, b >>
Palette == { << 200, 120, 90 >>, << 96, 80, 21 >>, << 95, 40, 20 >>,
             << 120, 110, 60 >> }

\* An image: a vertical band of columns lo .. hi - 1 of colour `inside` on a
\* ground of colour `outside`.  The sides are multiples of 4, so that
\* Math.min(width, height) / 4 is a whole number.
Images ==
  { i \in [width : {20}, height : {20, 24}, lo : 0..20, hi : 0..20,
           inside : Palette, outside : Palette] : i.lo <= i.hi }

PixelAt(img, x, y) ==
  IF img.lo <= x /\ x < img.hi THEN img.inside ELSE img.outside

\* r > 95 && g > 40 && b > 20 && r > g && r > b && Math.abs(r - g) > 15
SkinLike(p) ==
  /\ p[1] > 95 /\ p[2] > 40 /\ p[3] > 20
  /\ p[1] > p[2] /\ p[1] > p[3]
  /\ Abs(p[1] - p[2]) > 15

Min(a, b) == IF a < b THEN a ELSE b

\* the pixels the two loops visit: from centre - regionSize up to, not
\* including, centre + regionSize, inside the image
SampledPixels(img) ==
  LET centerX == img.width \div 2
      centerY == img.height \div 2
      regionSize == Min(img.width, img.height) \div 4
  IN { xy \in ((centerX - regionSize)..(centerX + regionSize - 1))
              \X ((centerY - regionSize)..(centerY + regionSize - 1)) :
         /\ xy[1] >= 0 /\ xy[1] < img.width
         /\ xy[2] >= 0 /\ xy[2] < img.height }

\* detectFaceInImageData(imageData): the two counters and the value returned
DetectFaceInImageData(img) ==
  LET sampled == SampledPixels(img)
      counted == [skinPixels |->
                    Cardinality({ xy \in sampled :
                                    SkinLike(PixelAt(img, xy[1], xy[2])) }),
                  totalPixels |-> Cardinality(sampled)]
  IN [skinPixels |-> counted.skinPixels,
      totalPixels |-> counted.totalPixels,
      faceDetected |-> DetectFace(counted)]

\* the camera shows one image; the periodic check classifies it each time
InitClassifierSpec ==
  /\ Quiescent
  /\ \E img \in Images :
       det = [n |-> 0, image |-> img, skinPixels |-> 0, totalPixels |-> 0,
              faceDetected |-> FALSE]

ClassifierRuns ==
  /\ det.n < MaxChecks
  /\ LET out == DetectFaceInImageData(det.image)
     IN det' = [det EXCEPT !.n = @ + 1,
                           !.skinPixels = out.skinPixels,
                           !.totalPixels = out.totalPixels,
                           !.faceDetected = out.faceDetected]
  /\ UNCHANGED << ledgerVars, sess, owner, wall, relay >>

NextClassifier == ClassifierRuns

ClassifierSpec == InitClassifierSpec /\ [][NextClassifier]_vars

\* ---- the session's reactions to responses
\* The callback of slot r's sender runs without a response (the message
\* channel closed before sendResponse was called): response is undefined.
\* The handler goes on; what it sends later reaches nobody.
NoResponse(r) ==
  /\ pc[r] # "idle"
  /\ owner[r] # "env"
  /\ owner' = [owner EXCEPT ![r] = "env"]
  /\ sess' = OnResponse(owner[r], sess, Nil, FALSE, wall)
  /\ UNCHANGED << ledgerVars, wall, det, relay >>

\* the 'mute' listener of the camera's video track
TrackMuted ==
  /\ sess.phase # "unloaded"
  /\ sess.cameraStream
  /\ Emit("CAMERA_OFF", sess)
  /\ UNCHANGED << wall, det, relay >>

\* The page as the ledger's only client; a callback may run without a
\* response.
NextReaction ==
  \/ QuietSessionStep
  \/ AllIdle /\ TrackMuted
  \/ \E r \in Slots : StepSession(r)
  \/ \E r \in Slots : NoResponse(r)

ReactionSpec == InitSessionSpec /\ [][NextReaction]_vars

\* ---- two sessions of one identity, for as long as they run
\* chrome.runtime.onMessage fires with a recordInfraction or isBlocked
\* message m that carries an identity; the messages are not counted
LiveAccept(r, m) ==
  /\ pc[r] = "idle"
  /\ pc' = [pc EXCEPT ![r] = "get"]
  /\ msg' = [msg EXCEPT ![r] = m]
  /\ UNCHANGED << storage, clock, data, pending, response, last, nreq,
                  noverlap, accepted, blocksSent, adminSeen, unblockApplied, unblocked >>

\* the periodic check of timer t runs and observes a violation:
\* recordInfraction(type, details), then showWarningOverlay for the checks
\* that call it
LiveDetectorFires(t) ==
  /\ sess.phase # "unloaded"
  /\ t \in sess.timers \ {"cameraRetry"}
  /\ LET after == IF t \in OverlayingDetectors
                  THEN ShowWarningOverlay(sess, wall) ELSE sess
     IN IF ShouldSend(sess, wall)
        THEN /\ \E r \in Slots :
                  /\ FreeSlot(r)
                  /\ LiveAccept(r, InfractionMessage(sess, DetectorType[t]))
                  /\ owner' = [owner EXCEPT ![r] = "record"]
             /\ sess' = after
        ELSE /\ sess' = after
             /\ UNCHANGED << ledgerVars, owner >>
  /\ UNCHANGED << wall, det, relay >>

\* a detector of another session of the same identity submits an infraction,
\* while no message is being handled and until the identity is blocked
LiveOtherSessionRecords ==
  /\ AllIdle
  /\ \E r \in Slots, i \in SessionIds :
       /\ ~Has(storage.blockedIds, i)
       /\ FreeSlot(r)
       /\ LiveAccept(r, [type |-> "recordInfraction", studentId |-> i,
                         infractionType |-> "TAB_SWITCH",
                         details |-> "Page hidden - possible tab switch",
                         page |-> "https://exam.example/paper"])
  /\ UNCHANGED << sess, owner, wall, det, relay >>

LiveDetector == \E t \in NamedIntervals : LiveDetectorFires(t)

NextLive ==
  \/ InitializeMonitoring
  \/ LiveDetector
  \/ LiveOtherSessionRecords
  \/ \E v \in StorageEventValues : StorageEvent(v)
  \/ \E r \in Slots : StepSession(r)

\* Storage callbacks and message handlers always run in the end; a detector
\* whose timer is set runs again and again.
LiveSpec ==
  /\ InitSessionSpec
  /\ [][NextLive]_vars
  /\ \A r \in Slots : WF_vars(StepSession(r))
  /\ WF_vars(InitializeMonitoring)
  /\ SF_vars(LiveDetector)

\* ---- the relay server's activity counters (server.js)
MaxServerRequests == 3  \* requests the server receives in one behaviour
MaxBulk == 2            \* activities in one bulk request

\* the sessions /api/session/start has stored, by sessionId
ServerSessions == {"SESSION_s1_1000", "SESSION_s2_1000"}
ActivityTypes == {"INFRACTION", "ACTIVITY"}

\* the body of POST /api/activity/log, and an element of a bulk request
Activities == [sessionId : ServerSessions, type : ActivityTypes]

\* the body of POST /api/activity/bulk: { sessionId, studentId, activities }
BulkBodies ==
  [sessionId : ServerSessions,
   activities : UNION {[1..n -> Activities] : n \in 0..MaxBulk}]

RECURSIVE SumOver(_, _)
SumOver(f, S) ==
  IF S = {} THEN 0
  ELSE LET x == CHOOSE y \in S : TRUE IN f[x] + SumOver(f, S \ {x})

\* the stored activity logs carrying a sessionId, and the infractions among them
LogsOf(logs, sid) == SumOver(logs, {a \in Activities : a.sessionId = sid})
InfractionsOf(logs, sid) ==
  SumOver(logs, {a \in Activities : a.sessionId = sid /\ a.type = "INFRACTION"})

\* activities.filter(a => a.type === 'INFRACTION').length
InfractionCount(activities) ==
  Cardinality({k \in DOMAIN activities : activities[k].type = "INFRACTION"})

\* ActivityLog.insertMany(activities)
RECURSIVE InsertMany(_, _)
InsertMany(logs, activities) ==
  IF activities = << >> THEN logs
  ELSE InsertMany([logs EXCEPT ![Head(activities)] = @ + 1], Tail(activities))

\* ExamSession.findOneAndUpdate({ sessionId }, { $inc: {...} })
Inc(sessions, sid, infractions, activities) ==
  [sessions EXCEPT ![sid] =
     [totalInfractions |-> @.totalInfractions + infractions,
      totalActivities  |-> @.totalActivities + activities]]

InitServerSpec ==
  /\ Quiescent
  /\ det = [logs     |-> [a \in Activities |-> 0],
            sessions |-> [sid \in ServerSessions |->
                            [totalInfractions |-> 0, totalActivities |-> 0]],
            reqs     |-> [q \in Slots |-> Nil],
            posted   |-> 0]

ServerIdle == \A q \in Slots : det.reqs[q] = Nil

\* POST /api/activity/log arrives
PostLog(q, a) ==
  /\ det.reqs[q] = Nil
  /\ det.posted < MaxServerRequests
  /\ det' = [det EXCEPT !.posted = @ + 1,
                        !.reqs[q] = [route |-> "log", at |-> "save", body |-> a]]
  /\ UNCHANGED << ledgerVars, sess, owner, wall, relay >>

\* await activity.save()
ActivitySave(q) ==
  /\ det.reqs[q] # Nil
  /\ det.reqs[q].route = "log"
  /\ det.reqs[q].at = "save"
  /\ det' = [det EXCEPT !.logs[det.reqs[q].body] = @ + 1,
                        !.reqs[q].at = "update"]
  /\ UNCHANGED << ledgerVars, sess, owner, wall, relay >>

\* the session update of the single-log endpoint, then res.json
LogUpdate(q) ==
  /\ det.reqs[q] # Nil
  /\ det.reqs[q].route = "log"
  /\ det.reqs[q].at = "update"
  /\ LET a == det.reqs[q].body
     IN det' = [det EXCEPT
                  !.sessions = Inc(@, a.sessionId,
                                   IF a.type = "INFRACTION" THEN 1 ELSE 0, 1),
                  !.reqs[q] = Nil]
  /\ UNCHANGED << ledgerVars, sess, owner, wall, relay >>

\* POST /api/activity/bulk arrives; an empty list is answered at once
PostBulk(q, b) ==
  /\ det.reqs[q] = Nil
  /\ det.posted < MaxServerRequests
  /\ det' = [det EXCEPT
               !.posted = @ + 1,
               !.reqs[q] = IF Len(b.activities) = 0 THEN Nil
                           ELSE [route |-> "bulk", at |-> "insert", body |-> b]]
  /\ UNCHANGED << ledgerVars, sess, owner, wall, relay >>

\* await ActivityLog.insertMany(activities)
BulkInsert(q) ==
  /\ det.reqs[q] # Nil
  /\ det.reqs[q].route = "bulk"
  /\ det.reqs[q].at = "insert"
  /\ det' = [det EXCEPT !.logs = InsertMany(@, det.reqs[q].body.activities),
                        !.reqs[q].at = "update"]
  /\ UNCHANGED << ledgerVars, sess, owner, wall, relay >>

\* the session update of the bulk endpoint, then res.json
BulkUpdate(q) ==
  /\ det.reqs[q] # Nil
  /\ det.reqs[q].route = "bulk"
  /\ det.reqs[q].at = "update"
  /\ LET b == det.reqs[q].body
     IN det' = [det EXCEPT
                  !.sessions = Inc(@, b.sessionId,
                                   InfractionCount(b.activities),
                                   Len(b.activities)),
                  !.reqs[q] = Nil]
  /\ UNCHANGED << ledgerVars, sess, owner, wall, relay >>

NextServer ==
  \/ \E q \in Slots, a \in Activities : PostLog(q, a)
  \/ \E q \in Slots, b \in BulkBodies : PostBulk(q, b)
  \/ \E q \in Slots : ActivitySave(q)
  \/ \E q \in Slots : LogUpdate(q)
  \/ \E q \in Slots : BulkInsert(q)
  \/ \E q \in Slots : BulkUpdate(q)

ServerSpec == InitServerSpec /\ [][NextServer]_vars

\* ---- requests without an identity
\* A recordInfraction message whose studentId is empty, from any sender.
AnonymousRecords ==
  /\ AllIdle
  /\ nreq < MaxSessionRequests
  /\ \E r \in Slots, t \in InputTypes :
       /\ FreeSlot(r)
       /\ Receive(r, [type |-> "recordInfraction", studentId |-> NoId,
                      infractionType |-> t,
                      details |-> "Page hidden - possible tab switch",
                      page |-> "https://exam.example/paper"])

NextNoId ==
  \/ QuietSessionStep
  \/ AnonymousRecords
  \/ \E r \in Slots : StepSession(r)

NoIdSpec == InitSessionSpec /\ [][NextNoId]_vars

\* ------------------------------------------------------ session claims
\* the step in which the page's monitoring starts
MonitoringStarts ==
  \/ ~sess.monitoringActive /\ sess'.monitoringActive
  \/ ~sess.guards /\ sess'.guards
  \/ sess.phase = "checking" /\ (sess'.camPending \/ sess'.timers # {})

\* the step in which the isBlocked request of initializeMonitoring is answered
InitAnswered ==
  \E r \in Slots :
    /\ pc[r] = "callback" /\ pc'[r] = "idle"
    /\ msg[r].type = "isBlocked" /\ owner[r] = "init"

\* C13: monitoring starts only in the step that answers the session's
\* isBlocked request, and never when the ledger holds a BlockRecord for the
\* session's identity at that moment.
C13_NeverStartsBlocked ==
  [][MonitoringStarts =>
       /\ InitAnswered
       /\ ~Has(storage.blockedIds, sess.studentId)]_vars

\* C14: the step in which stopAllMonitoring first runs leaves no timer of the
\* session scheduled (camera-liveness check, window-movement poll and camera
\* retry timer included).
C14_StopCancelsTimers ==
  [][(~sess.stopped /\ sess'.stopped) => sess'.timers = {}]_vars

\* C15: once the block screen is rendered, no interval kept in a variable is
\* running and no camera/microphone stream or audio context is held.
C15_BlockIrreversible ==
  (sess.blockScreen /\ sess.phase # "unloaded") =>
    /\ sess.timers \cap NamedIntervals = {}
    /\ ~sess.cameraStream
    /\ ~sess.audioContext

\* C16: when activation has completed with camera access granted, the face,
\* audio, eye-motion, screen-share and multi-monitor checks are all running
\* and the input guards are installed.
C16_AllDetectorsStarted ==
  (sess.monitoringActive /\ sess.cameraStream /\ ~sess.monPending) =>
    /\ NamedIntervals \subseteq sess.timers
    /\ sess.guards

\* the step in which a camera/microphone acquisition attempt fails
AcquisitionFails ==
  sess.camPending /\ ~sess'.camPending /\ ~sess'.cameraStream
    /\ sess'.phase # "unloaded"

\* the step in which a camera/microphone acquisition attempt succeeds
AcquisitionSucceeds == sess.camPending /\ ~sess'.camPending /\ sess'.cameraStream

\* the step sends a recordInfraction request of type t from the page
RequestSent(t) ==
  /\ nreq' = nreq + 1
  /\ \E r \in Slots :
       /\ pc[r] = "idle" /\ pc'[r] = "get"
       /\ owner'[r] = "record"
       /\ msg'[r].type = "recordInfraction"
       /\ msg'[r].infractionType = t

\* C17: a failed acquisition attempt sends one CAMERA_OFF request and
\* schedules one retry; a successful one starts the face and audio checks.
C17_FailedAttemptReported ==
  [][/\ AcquisitionFails =>
          /\ RequestSent("CAMERA_OFF")
          /\ "cameraRetry" \notin sess.timers
          /\ "cameraRetry" \in sess'.timers
     /\ AcquisitionSucceeds =>
          {"faceDetectionInterval", "audioDetectionInterval"}
            \subseteq sess'.timers]_vars

\* C18: while monitoringActive holds, every infraction a detector or input
\* guard emits is sent to the ledger as a recordInfraction request.
C18_NeverDropped ==
  [][(sess.monitoringActive /\ sess'.emitted = sess.emitted + 1) =>
       /\ sess'.sent = sess.sent + 1
       /\ nreq' = nreq + 1]_vars

\* C19: any two warning notices that are displayed are at least 1000 ms apart.
C19_DisplaysApart ==
  sess.prevShown # NotShown => sess.lastShown - sess.prevShown >= 1000

\* two notices were displayed and a third request to display was suppressed
C19_Witness ==
  /\ sess.prevShown # NotShown
  /\ sess.lastShown - sess.prevShown >= 1000
  /\ sess.suppressed

\* the step in which the response to a page's recordInfraction arrives and the
\* warning notice it asks for is suppressed
SuppressedResponse(r) ==
  /\ pc[r] = "setcb" /\ pc'[r] = "idle"
  /\ owner[r] = "record"
  /\ Truthy(response[r], "ok") /\ ~Truthy(response[r], "blocked")
  /\ sess'.lastWarningTime = sess.lastWarningTime

\* C20: an infraction emitted by a page that has an identity is sent as a
\* request whether or not warning notices are being suppressed, and a request
\* whose notice is suppressed has incremented the ledger's count.
C20_SuppressionKeepsCount ==
  [][/\ (sess.studentId # NoId /\ sess'.emitted = sess.emitted + 1) =>
          /\ sess'.sent = sess.sent + 1
          /\ nreq' = nreq + 1
     /\ \A r \in Slots :
          SuppressedResponse(r) =>
            Count(msg[r].studentId)
              = RecordIn(data[r], msg[r].studentId).count + 1]_vars

\* two infractions emitted within one second were both sent and both counted,
\* and a warning notice was suppressed
C20_Witness ==
  /\ AllIdle
  /\ sess.sent = 2
  /\ sess.suppressed
  /\ Count("s1") = 2 /\ accepted["s1"] = 2
  /\ wall < StartTime + 1000

\* C21: a check emits NO_FACE exactly when it is the third, sixth, ... of a
\* run of consecutive 'no face' checks; a check that sees a face or is skipped
\* for lack of video dimensions ends the run.
C21_NoFaceEveryThird ==
  \A n \in 1..Len(det.checks) :
    ("NO_FACE" \in det.emitted[n]) <=>
      /\ det.checks[n] = "noFace"
      /\ RunEnding(det.checks, "noFace", n) % 3 = 0

\* C22: a check emits AUDIO_DETECTED exactly when it is the third, sixth, ...
\* of a run of consecutive checks whose mean magnitude exceeds 30; a check at
\* or below 30 ends the run.
C22_AudioEveryThird ==
  \A n \in 1..Len(det.checks) :
    ("AUDIO_DETECTED" \in det.emitted[n]) <=>
      /\ LoudRunEnding(det.checks, n) > 0
      /\ LoudRunEnding(det.checks, n) % 3 = 0

\* three consecutive checks at 31 emitted one event, after a streak of two at
\* 31 that a check at 29 had ended without an event
C22_Witness ==
  /\ Len(det.checks) = 6
  /\ \A n \in {1, 2, 4, 5, 6} : det.checks[n].sum = 31 * 128
  /\ det.checks[3].sum = 29 * 128
  /\ det.emitted = << {}, {}, {}, {}, {}, {"AUDIO_DETECTED"} >>

\* C23: a check emits EYE_MOVEMENT exactly when it is the second, fourth, ...
\* of a run of consecutive qualifying checks (a check with too few samples
\* ends the run like any other non-qualifying check), and a check leaves the
\* sample window empty exactly when it emits.
C23_EyeEverySecond ==
  \A n \in 1..Len(det.checks) :
    /\ ("EYE_MOVEMENT" \in det.emitted[n]) <=>
         /\ det.checks[n] = "qualifying"
         /\ RunEnding(det.checks, "qualifying", n) % 2 = 0
    /\ (det.checks[n] # "tooFew" /\ det.windows[n] = 0)
         <=> ("EYE_MOVEMENT" \in det.emitted[n])

\* C24: a check that does not throw reports the first positive signal in the
\* order ultra-wide (width / height > 2.5), window more than 100 units outside
\* the display, extended-display flag, enumeration of more than one display;
\* it reports detected = false when none is positive.  3000 x 1000 gives the
\* ultra-wide reason whatever the other signals are.
C24_FirstPositiveSignal ==
  (det.n > 0 /\ ~det.env.throws) =>
    LET e == det.env
        wide == e.screenWidth * 10 > e.screenHeight * 25
        out == e.x < -100 \/ e.x - e.screenWidth > 100
                 \/ e.y < -100 \/ e.y - e.screenHeight > 100
        flag == e.isExtended = "true"
        many == e.getScreenDetails = "granted" /\ e.screens >= 2
    IN /\ wide => det.result.reason = "ultraWide"
       /\ (~wide /\ out) => det.result.reason = "outsideBounds"
       /\ (~wide /\ ~out /\ flag) => det.result.reason = "extended"
       /\ (~wide /\ ~out /\ ~flag /\ many) =>
            det.result.reason = "multipleDisplays"
       /\ det.result.detected <=> (wide \/ out \/ flag \/ many)
       /\ det.result.detected <=> det.result.reason # "none"
       /\ e.screenWidth = 3000 => det.result.reason = "ultraWide"

\* a check where every signal is positive, and one at exactly 2.5 that falls
\* through to the window position
C24_Witness ==
  /\ det.n > 1
  /\ ~det.env.throws
  /\ det.env.screenWidth = 2500
  /\ det.env.x = 3101
  /\ det.env.isExtended = "true"
  /\ det.env.getScreenDetails = "granted"
  /\ det.env.screens = 2
  /\ det.result.reason = "outsideBounds"

\* C28: a check that throws, or whose screen enumeration is denied, reports
\* detected = false and emits no infraction.
C28_FailOpen ==
  det.n > 0 =>
    /\ det.env.throws => (~det.result.detected /\ det.emits = {})
    /\ ( /\ ~det.env.throws
         /\ det.env.getScreenDetails = "denied"
         /\ det.result.reason \notin {"ultraWide", "outsideBounds", "extended"} )
       => (~det.result.detected /\ det.emits = {})
    /\ det.emits # {} => det.result.detected

\* the enumeration was reached and denied; and a throwing check on an
\* ultra-wide display
C28_Witness ==
  /\ det.n > 1
  /\ \/ /\ ~det.env.throws
        /\ det.env.screenWidth = 1920
        /\ det.env.x = 0 /\ det.env.y = 0
        /\ det.env.isExtended = "undefined"
        /\ det.env.getScreenDetails = "denied"
        /\ det.env.screens = 2
     \/ /\ det.env.throws
        /\ det.env.screenWidth = 3000
  /\ det.emits = {}
  /\ ~det.result.detected

\* C25: every intercepted input action is cancelled and submits exactly one
\* infraction, of the type assigned to the action; n attempts give n
\* submissions.
C25_EveryAttemptSubmitted ==
  \A n \in 1..Len(det.inputs) :
    LET i == det.inputs[n]
    IN /\ i.cancelled
       /\ i.submitted =
            { IF i.action = "windowOpen" THEN "NEW_TAB"
              ELSE IF i.action \in {"externalLink", "externalSubmit"}
              THEN "NAVIGATION"
              ELSE "COPY_PASTE" }

\* C26: a call of getDisplayMedia made while monitoring is active fails and
\* submits a SCREEN_SHARE infraction.
C26_CaptureDenied ==
  \A n \in 1..Len(det.captures) :
    det.captures[n].active =>
      /\ det.captures[n].denied
      /\ det.captures[n].submitted = {"SCREEN_SHARE"}

\* C27: the ledger does not depend on the relay: a step that changes the
\* relay's condition leaves the ledger and every handler in flight as they
\* are, and a handler in flight can take its next step whatever the relay's
\* condition is (it awaits no relay call).
C27_LedgerIgnoresRelay ==
  [][ /\ relay' # relay => UNCHANGED ledgerVars
      /\ \A r \in Slots :
           pc[r] # "idle" =>
             \A s \in RelayStates : RelayPermits(msg[r].type, s)
      /\ \A r \in Slots :
           (pc[r] # "idle" /\ relay.state # "reachable") =>
             ENABLED StepRelay(r) ]_vars

\* an identity was recorded three times and blocked while the relay was
\* failing from the start
C27_Witness ==
  /\ relay.state = "failing"
  /\ relay.changedAt = 0
  /\ nreq = 3
  /\ AllIdle
  /\ last # Nil
  /\ last.msg.type = "recordInfraction"
  /\ last.response.ok
  /\ "blocked" \in DOMAIN last.response
  /\ Has(storage.blockedIds, last.msg.studentId)

\* C29: in the mappings a blocking request stores, the identity's
\* BlockRecord has totalInfractions equal to the count after the increment and
\* lastEvents equal to the last min(5, number of events) entries of the events
\* list, in order, the last one being the event of this request.
C29_BlockSnapshot ==
  \A r \in Slots :
    ( /\ pc[r] \in {"set", "setcb"}
      /\ msg[r].type = "recordInfraction"
      /\ "blocked" \in DOMAIN response[r] ) =>
    LET id == msg[r].studentId
        before == IF id \in DOMAIN data[r].infractions
                  THEN data[r].infractions[id].count ELSE 0
        ev == pending[r].infractions[id].events
        b == pending[r].blockedIds[id]
        kept == IF Len(ev) < 5 THEN Len(ev) ELSE 5
    IN /\ b.totalInfractions = before + 1
       /\ b.totalInfractions = pending[r].infractions[id].count
       /\ Len(b.lastEvents) = kept
       /\ \A j \in 1..kept : b.lastEvents[j] = ev[Len(ev) - kept + j]
       /\ b.lastEvents[kept].type = msg[r].infractionType
       /\ b.lastEvents[kept].details = msg[r].details
       /\ Len(ev) > 0 /\ b.lastEvents[kept] = ev[Len(ev)]

\* a block that follows an unblock (the count restarted, the events list was
\* kept), the identity having six events
C29_Witness ==
  \E r \in Slots :
    /\ pc[r] \in {"set", "setcb"}
    /\ msg[r].type = "recordInfraction"
    /\ "blocked" \in DOMAIN response[r]
    /\ adminSeen
    /\ Len(pending[r].infractions[msg[r].studentId].events) = 6
    /\ pending[r].blockedIds[msg[r].studentId].totalInfractions = 3
    /\ Len(pending[r].blockedIds[msg[r].studentId].lastEvents) = 5

\* C30: when clearAllData sends its response, the response is ok and both
\* mappings of the ledger are empty, also when a recordInfraction handler runs
\* at the same time.
C30_ClearedWhenAnswered ==
  [][ \A r \in Slots :
        ( /\ pc[r] = "setcb"
          /\ msg[r].type = "clearAllData"
          /\ pc'[r] = "idle" ) =>
        /\ last'.response = [ok |-> TRUE]
        /\ storage' = EmptyLedger ]_vars

\* C31: the classifier samples a square of side min(width, height) / 4 (that
\* many pixels squared), and answers 'no face' exactly when at most 10% of the
\* pixels sampled are skin-like.
C31_QuarterSideRegion ==
  det.n > 0 =>
    LET side == Min(det.image.width, det.image.height) \div 4
    IN /\ det.totalPixels = side * side
       /\ ~det.faceDetected <=> det.skinPixels * 100 <= det.totalPixels * 10

\* C32: when the callback of a recordInfraction request runs in a live page:
\* on a response with blocked set the block is enforced and no warning is
\* requested; on an ok response without blocked a warning display is
\* requested and the detectors, the camera and the audio context stay as they
\* are; without a response nothing changes.
C32_ReactionToResponse ==
  [][ \A r \in Slots :
        ( /\ owner[r] = "record"
          /\ owner'[r] = "env"
          /\ sess.phase # "unloaded" ) =>
        LET answered == pc'[r] = "idle"
            resp == last'.response
            blocked == answered /\ "blocked" \in DOMAIN resp /\ resp.blocked
            okay == answered /\ ~blocked /\ resp.ok
            sameWarnings == /\ sess'.lastWarningTime = sess.lastWarningTime
                            /\ sess'.lastShown = sess.lastShown
                            /\ sess'.suppressed = sess.suppressed
            sameDetectors == /\ sess'.timers = sess.timers
                             /\ sess'.monitoringActive = sess.monitoringActive
                             /\ sess'.cameraStream = sess.cameraStream
                             /\ sess'.audioContext = sess.audioContext
                             /\ sess'.blockScreen = sess.blockScreen
        IN /\ blocked =>
                /\ sess'.blockScreen
                /\ ~sess'.monitoringActive
                /\ sess'.stopped
                /\ sameWarnings
           /\ okay =>
                /\ sameDetectors
                /\ \/ sess'.lastShown = wall /\ sess'.lastWarningTime = wall
                   \/ sess'.suppressed /\ sess'.lastShown = sess.lastShown
           /\ ~answered => sess' = sess
           /\ (answered /\ ~blocked /\ ~okay) => sess' = sess ]_vars

\* the block was enforced on a fresh block and again on an already-blocked
\* rejection
C32_Witness ==
  /\ sess.blockScreen
  /\ sess.sent = 2
  /\ last # Nil
  /\ last.msg.type = "recordInfraction"
  /\ ~last.response.ok
  /\ last.response.reason = "already-blocked"
  /\ AllIdle

\* C33: once the identity of an active session is blocked in the ledger, the
\* session reaches the lockdown state: it does not stay active for ever.
C33_EventuallyLockedDown ==
  (Has(storage.blockedIds, "s1") /\ sess.monitoringActive)
    ~> (sess.blockScreen \/ ~sess.monitoringActive)

\* C34: a step in which the page submits a CAMERA_OFF infraction while it
\* holds the camera stream (a track ended or was muted, or the liveness check
\* ran) changes nothing else of the session: the detectors, the stream and
\* the audio context stay as they are.
C34_TrackEventOnlySubmits ==
  [][ ( /\ sess.cameraStream
        /\ \E r \in Slots :
             /\ pc[r] = "idle"
             /\ pc'[r] = "get"
             /\ msg'[r].type = "recordInfraction"
             /\ msg'[r].infractionType = "CAMERA_OFF"
             /\ owner'[r] = "record" ) =>
      sess' = [sess EXCEPT !.emitted = @ + 1, !.sent = @ + 1] ]_vars

\* C35: a step that is not the write of a clearAllData handler leaves every
\* identity's events list as it is or with one event appended: the list
\* before the step is a prefix of the list after it.
C35_EventsAppendOnly ==
  [][ (\A r \in Slots :
         ~(pc[r] = "set" /\ pc'[r] = "setcb" /\ msg[r].type = "clearAllData"))
      => \A i \in Identities :
           LET before == RecordIn(storage, i).events
               after  == RecordIn(storage', i).events
           IN /\ Len(before) <= Len(after)
              /\ Len(after) <= Len(before) + 1
              /\ SubSeq(after, 1, Len(before)) = before ]_vars

\* C36: when an isBlocked or getStatus request has been answered, the ledger
\* is the one the handler read; isBlocked answers blocked = true with the
\* stored BlockRecord if the identity has one and blocked = false, info = null
\* if not; getStatus answers with the two stored mappings.
C36_PureQueries ==
  (AllIdle /\ "msg" \in DOMAIN last) =>
    /\ last.msg.type = "isBlocked" =>
         /\ storage = last.data
         /\ IF last.msg.studentId \in DOMAIN storage.blockedIds
            THEN /\ last.response.blocked
                 /\ last.response.info = storage.blockedIds[last.msg.studentId]
            ELSE /\ ~last.response.blocked
                 /\ last.response.info = Nil
    /\ last.msg.type = "getStatus" =>
         /\ storage = last.data
         /\ last.response.infractions = storage.infractions
         /\ last.response.blockedIds = storage.blockedIds
         /\ DOMAIN last.response = {"infractions", "blockedIds"}

\* isBlocked has just been answered for an identity that was blocked by its
\* third infraction
C36_Witness ==
  /\ AllIdle
  /\ "msg" \in DOMAIN last
  /\ last.msg.type = "isBlocked"
  /\ last.response.blocked
  /\ last.response.info.totalInfractions = 3
  /\ Blocked(last.msg.studentId)

\* C37: a callback that enforces the block leaves the session with
\* monitoringActive false, no camera stream, no audio context and the block
\* screen, in a state that another run of enforceBlock does not change; a run
\* on a session that is already in such a state changes nothing (phase is the
\* position of initializeMonitoring, which its own callback advances).
C37_EnforceBlockIdempotent ==
  [][ \A r \in Slots :
        ( /\ owner[r] \in {"init", "check", "record"}
          /\ owner'[r] = "env"
          /\ pc'[r] = "idle"
          /\ sess.phase # "unloaded"
          /\ "blocked" \in DOMAIN last'.response
          /\ last'.response.blocked
          /\ sess'.phase # "unloaded" ) =>
        /\ ~sess'.monitoringActive
        /\ ~sess'.cameraStream
        /\ ~sess'.audioContext
        /\ sess'.blockScreen
        /\ EnforceBlock(sess') = sess'
        /\ EnforceBlock(sess) = sess =>
             [sess' EXCEPT !.phase = sess.phase] = sess ]_vars

\* the block was enforced a second time, on an already-blocked rejection,
\* after the first run had stopped the camera
C37_Witness ==
  /\ AllIdle
  /\ sess.blockScreen
  /\ sess.stopped
  /\ ~sess.monitoringActive
  /\ ~sess.cameraStream
  /\ "cameraLiveness" \in sess.timers
  /\ sess.timers \cap NamedIntervals = {}
  /\ last # Nil
  /\ last.msg.type = "recordInfraction"
  /\ last.response = [ok |-> FALSE, blocked |-> TRUE,
                      reason |-> "already-blocked"]

\* C38: every stored IdentityRecord has count = warnings and at least count
\* events, and exactly count events when no unblockId handler has stored a
\* change for its identity.
C38_RecordShape ==
  \A i \in DOMAIN storage.infractions :
    LET rec == storage.infractions[i]
    IN /\ rec.count = rec.warnings
       /\ Len(rec.events) >= rec.count
       /\ i \notin unblockApplied => Len(rec.events) = rec.count

\* one identity was unblocked and has recorded again since, with more events
\* than its count, while the other's record is exact
C38_Witness ==
  /\ AllIdle
  /\ unblockApplied = {"s1"}
  /\ DOMAIN storage.infractions = {"s1", "s2"}
  /\ storage.infractions["s1"].count = 1
  /\ Len(storage.infractions["s1"].events) > 1
  /\ storage.infractions["s2"].count = 1
  /\ Len(storage.infractions["s2"].events) = 1

\* C39: a received message either starts a handler, and then it is not a
\* recordInfraction without studentId, or it is a recordInfraction without
\* studentId that is answered {ok: false, reason: 'no-id'} at once with the
\* ledger and every handler as they were; and when a detector fires in a
\* session whose identity is unset, no message is sent.
C39_NoIdentityNoRecord ==
  [][ /\ nreq' = nreq + 1 =>
           \/ /\ msg' # msg
              /\ \A r \in Slots :
                   (msg'[r] # msg[r] /\ msg'[r].type = "recordInfraction")
                     => msg'[r].studentId # NoId
           \/ /\ msg' = msg
              /\ last'.msg.type = "recordInfraction"
              /\ last'.msg.studentId = NoId
              /\ last'.response = [ok |-> FALSE, reason |-> "no-id"]
              /\ storage' = storage
              /\ pc' = pc
              /\ pending' = pending
      /\ (sess.studentId = NoId /\ sess'.emitted = sess.emitted + 1) =>
           /\ nreq' = nreq
           /\ msg' = msg
           /\ last' = last
           /\ sess'.sent = sess.sent ]_vars

\* a request without studentId was answered no-id over a ledger that holds
\* records, and a detector has fired in the session after its identity was
\* removed
C39_Witness ==
  /\ AllIdle
  /\ last # Nil
  /\ last.msg.type = "recordInfraction"
  /\ last.msg.studentId = NoId
  /\ last.response = [ok |-> FALSE, reason |-> "no-id"]
  /\ Count("s1") > 0
  /\ sess.studentId = NoId
  /\ sess.monitoringActive
  /\ sess.emitted > sess.sent

\* C40: when no request is in flight on the relay server, each session's
\* totalActivities is the number of stored activity logs carrying its
\* sessionId and its totalInfractions the number of those of type INFRACTION.
C40_CountersMatchLogs ==
  ("posted" \in DOMAIN det /\ ServerIdle) =>
    \A sid \in ServerSessions :
      /\ det.sessions[sid].totalActivities = LogsOf(det.logs, sid)
      /\ det.sessions[sid].totalInfractions = InfractionsOf(det.logs, sid)

====
